---- MODULE Spec2Model ----
(***************************************************************************)
(* A model of the CHIP-8 interpreter of src/chip8.c: the machine object    *)
(* chip8_t, the function-local statics of the FX0A handler, and the main   *)
(* loop (handle_input, the per-frame instruction batch, update_screen,     *)
(* update_timers).  One action per step of the main loop; the instruction  *)
(* semantics are operators that compute the next machine as the C code     *)
(* does, with the C integer widths (uint8_t, uint16_t) kept.               *)
(***************************************************************************)
EXTENDS Integers, Sequences, FiniteSets, TLC

VARIABLES
    chip8,            \* the chip8_t object of main()
    config,           \* the config_t object of main() (the fields the core reads)
    any_key_pressed,  \* static bool of the FX0A handler
    key,              \* static uint8_t of the FX0A handler
    rom,              \* the bytes of the ROM file named by rom_name
    pc,               \* position of main(): "start", "poll", "exec", "frame_end",
                      \* "exit", "undefined"
    i,                \* loop variable of the frame's instruction loop
    screen,           \* the picture last presented by update_screen
    playing,          \* TRUE while the audio device is unpaused
    touched,          \* the indices into ram[] used by the last instruction
    frames            \* number of frames started (bounds the exploration)

vars == <<chip8, config, any_key_pressed, key, rom, pc, i, screen, playing,
          touched, frames>>

----------------------------------------------------------------------------
(* Program constants *)

RamSize == 4096
DisplaySize == 2048
StackSize == 12
NumRegs == 16
NumKeys == 16
entry_point == 512
window_width == 64
window_height == 32
insts_per_second == 600
FrameRate == 60
NoKey == 255
Byte == 256
Word == 65536

(* Bounds of the exploration *)

MaxFrames == 3
MaxKey == 1

\* keys of the keypad that the host presses and releases in the model
TestKeys == 0..MaxKey
\* values rand() % 256 yields in the model
RandBytes == {0, 255}
\* values a read outside ram[] or keypad[] may yield
UBBytes == {0, 1}
\* values a read below stack[0] may yield
UBWords == {0, 65535}

----------------------------------------------------------------------------
(* Bit arithmetic on bytes *)

Bit(v, j) == (v \div (2^j)) % 2

BitAnd(a, b) ==
    LET f[j \in 0..8] == IF j = 8 THEN 0
                         ELSE Bit(a, j) * Bit(b, j) * (2^j) + f[j+1]
    IN f[0]

BitOr(a, b) ==
    LET f[j \in 0..8] == IF j = 8 THEN 0
                         ELSE (IF Bit(a, j) + Bit(b, j) > 0 THEN 2^j ELSE 0) + f[j+1]
    IN f[0]

BitXor(a, b) ==
    LET f[j \in 0..8] == IF j = 8 THEN 0
                         ELSE ((Bit(a, j) + Bit(b, j)) % 2) * (2^j) + f[j+1]
    IN f[0]

----------------------------------------------------------------------------
(* init_chip8 *)

font ==
    << 240, 144, 144, 144, 240,
        32,  96,  32,  32, 112,
       240,  16, 240, 128, 240,
       240,  16, 240,  16, 240,
       144, 144, 240,  16,  16,
       240, 128, 240,  16, 240,
       240, 128, 240, 144, 240,
       240,  16,  32,  64,  64,
       240, 144, 240, 144, 240,
       240, 144, 240,  16, 240,
       240, 144, 240, 144, 144,
       224, 144, 224, 144, 224,
       240, 128, 128, 128, 240,
       224, 144, 144, 144, 224,
       240, 128, 240, 128, 240,
       240, 128, 240, 128, 128 >>

\* instruction_t after memset
NoInst == [opcode |-> 0, NNN |-> 0, NN |-> 0, N |-> 0, X |-> 0, Y |-> 0]

\* chip8_t after memset(chip8, 0, sizeof(chip8_t)) and the copy of the font:
\* state 0 is QUIT, stack_ptr is the null pointer
ZeroedChip8 ==
    [ state         |-> "QUIT",
      ram           |-> [a \in 0..(RamSize-1) |->
                            IF a < Len(font) THEN font[a+1] ELSE 0],
      display       |-> [p \in 0..(DisplaySize-1) |-> FALSE],
      stack         |-> [s \in 0..(StackSize-1) |-> 0],
      stack_ptr     |-> 0,
      stack_ptr_null |-> TRUE,
      V             |-> [r \in 0..(NumRegs-1) |-> 0],
      I             |-> 0,
      PC            |-> 0,
      delay_timer   |-> 0,
      sound_timer   |-> 0,
      keypad        |-> [k \in 0..(NumKeys-1) |-> FALSE],
      rom_name      |-> "NULL",
      inst          |-> NoInst,
      draw          |-> FALSE ]

\* chip8_t chip8 = {0} of main, before init_chip8
BlankChip8 == [ZeroedChip8 EXCEPT !.ram = [a \in 0..(RamSize-1) |-> 0]]

max_size == RamSize - entry_point

\* init_chip8: romv is the content of the file, readable says whether fopen
\* succeeds.  The result is the return value and the object left behind.
init_chip8(romv, readable) ==
    IF ~readable
      THEN [ok |-> FALSE, chip8 |-> ZeroedChip8]
    ELSE IF Len(romv) > max_size
      THEN [ok |-> FALSE, chip8 |-> ZeroedChip8]
    ELSE IF Len(romv) = 0      \* fread of one item of size 0 returns 0
      THEN [ok |-> FALSE, chip8 |-> ZeroedChip8]
    ELSE [ok |-> TRUE,
          chip8 |-> [ZeroedChip8 EXCEPT
                       !.ram = [a \in 0..(RamSize-1) |->
                                  IF a >= entry_point /\ a < entry_point + Len(romv)
                                    THEN romv[a - entry_point + 1]
                                    ELSE ZeroedChip8.ram[a]],
                       !.state = "RUNNING",
                       !.PC = entry_point,
                       !.rom_name = "argv[1]",
                       !.stack_ptr = 0,
                       !.stack_ptr_null = FALSE]]

----------------------------------------------------------------------------
(* emulate_instruction.  The operators below work on a record m:           *)
(*   c       the chip8_t object                                            *)
(*   akp,key the statics any_key_pressed and key of the FX0A handler       *)
(*   touched the indices into ram[] the instruction has used               *)
(*   fault   TRUE once the instruction has stored outside an array or      *)
(*           through the null stack pointer (undefined behaviour whose     *)
(*           effect on the rest of the process the model does not follow)  *)
(*   used    which of the values supplied from outside the instruction has *)
(*           read: "r" (rand), "ub" (a read outside ram[] or keypad[]),    *)
(*           "uw" (a read outside stack[])                                 *)

VX(m) == m.c.V[m.c.inst.X]
VY(m) == m.c.V[m.c.inst.Y]

\* ram[a] as an rvalue; a read past the array yields some byte ub
RamRead(c, a, ub) == IF a < RamSize THEN c.ram[a] ELSE ub

\* the record of a read of ram[a]
NoteRam(m, a) ==
    [m EXCEPT !.touched = @ \cup {a},
              !.used = IF a < RamSize THEN @ ELSE @ \cup {"ub"}]

\* the record of a read of keypad[k]
NoteKeypad(m, k) ==
    [m EXCEPT !.used = IF k < NumKeys THEN @ ELSE @ \cup {"ub"}]

\* keypad[k] as an rvalue; a read past the array yields some byte ub
KeypadRead(c, k, ub) == IF k < NumKeys THEN c.keypad[k] ELSE ub # 0

\* ram[a] = v; a store past the array is a fault
RamWrite(m, a, v) ==
    IF a < RamSize
      THEN [m EXCEPT !.c.ram[a] = v, !.touched = @ \cup {a}]
      ELSE [m EXCEPT !.fault = TRUE, !.touched = @ \cup {a}]

\* chip8->PC += 2 (uint16_t)
SkipNext(m) == [m EXCEPT !.c.PC = (@ + 2) % Word]

\* mutant: the retry does not move PC back
Retry_NoRewind(m) == m

\* chip8->PC -= 2 (uint16_t)
Retry(m) == [m EXCEPT !.c.PC = (@ + Word - 2) % Word]

\* the fetch and the decode: opcode from ram[PC], ram[PC+1]; PC += 2
Fetch(m, ubA, ubB) ==
    LET opcode == RamRead(m.c, m.c.PC, ubA) * 256 + RamRead(m.c, m.c.PC + 1, ubB)
    IN [m EXCEPT
          !.c.inst = [opcode |-> opcode,
                      NNN    |-> opcode % 4096,
                      NN     |-> opcode % 256,
                      N      |-> opcode % 16,
                      X      |-> (opcode \div 256) % 16,
                      Y      |-> (opcode \div 16) % 16],
          !.c.PC = (@ + 2) % Word,
          !.touched = {m.c.PC, m.c.PC + 1},
          !.used = IF m.c.PC + 1 < RamSize THEN {} ELSE {"ub"}]

\* 00E0: clear the screen
op_00E0(m) ==
    [m EXCEPT !.c.display = [p \in 0..(DisplaySize-1) |-> FALSE],
              !.c.draw = TRUE]

\* mutant: the pop reads the slot before it moves the pointer (*stack_ptr--)
op_00EE_PostDecrement(m, uw) ==
    LET sp == m.c.stack_ptr
        inside == 0 <= sp /\ sp < StackSize
    IN [m EXCEPT !.c.stack_ptr = sp - 1,
                 !.c.PC = IF inside THEN m.c.stack[sp] ELSE uw,
                 !.used = IF inside THEN @ ELSE @ \cup {"uw"}]

\* 00EE: PC = *--stack_ptr.  A read below stack[0] (or past its end) yields
\* some word uw; a read through the null pointer is a fault.
op_00EE(m, uw) ==
    IF m.c.stack_ptr_null
      THEN [m EXCEPT !.fault = TRUE]
      ELSE LET sp == m.c.stack_ptr - 1
               inside == 0 <= sp /\ sp < StackSize
           IN [m EXCEPT !.c.stack_ptr = sp,
                        !.c.PC = IF inside THEN m.c.stack[sp] ELSE uw,
                        !.used = IF inside THEN @ ELSE @ \cup {"uw"}]

\* 2NNN: *stack_ptr++ = PC; PC = NNN.  A store outside stack[] is a fault.
op_2NNN(m) ==
    IF m.c.stack_ptr_null
      THEN [m EXCEPT !.fault = TRUE]
      ELSE LET sp == m.c.stack_ptr
           IN IF 0 <= sp /\ sp < StackSize
                THEN [m EXCEPT !.c.stack[sp] = m.c.PC,
                               !.c.stack_ptr = sp + 1,
                               !.c.PC = m.c.inst.NNN]
                ELSE [m EXCEPT !.c.stack_ptr = sp + 1,
                               !.c.PC = m.c.inst.NNN,
                               !.fault = TRUE]

\* case 0x00
op_0(m, uw) ==
    IF m.c.inst.NN = 224 THEN op_00E0(m)
    ELSE IF m.c.inst.NN = 238 THEN op_00EE(m, uw)
    ELSE m

\* 1NNN
op_1(m) == [m EXCEPT !.c.PC = m.c.inst.NNN]

\* 3XNN
op_3(m) == IF VX(m) = m.c.inst.NN THEN SkipNext(m) ELSE m

\* 4XNN
op_4(m) == IF VX(m) # m.c.inst.NN THEN SkipNext(m) ELSE m

\* 5XY0
op_5(m) ==
    IF m.c.inst.N # 0 THEN m
    ELSE IF VX(m) = VY(m) THEN SkipNext(m) ELSE m

\* 6XNN
op_6(m) == [m EXCEPT !.c.V[m.c.inst.X] = m.c.inst.NN]

\* mutant: the addition records its carry in VF, as 8XY4 does
op_7_Carry(m) ==
    LET sum == VX(m) + m.c.inst.NN
    IN [m EXCEPT !.c.V = [[@ EXCEPT ![m.c.inst.X] = sum % Byte]
                             EXCEPT ![15] = IF sum > 255 THEN 1 ELSE 0]]

\* 7XNN (uint8_t +=)
op_7(m) == [m EXCEPT !.c.V[m.c.inst.X] = (@ + m.c.inst.NN) % Byte]

\* mutant: the flag is stored before the result, so that with X = F the
\* result is what VF holds at the end
SetVFThenVX(m, v, carry) ==
    [m EXCEPT !.c.V = [[@ EXCEPT ![15] = carry] EXCEPT ![m.c.inst.X] = v]]

\* V[0xF] = carry, after V[X] = v
SetVXThenVF(m, v, carry) ==
    [m EXCEPT !.c.V = [[@ EXCEPT ![m.c.inst.X] = v] EXCEPT ![15] = carry]]

\* mutant: VF is reset in every quirks mode
Logic_AlwaysReset(m, cfg, v) == SetVXThenVF(m, v, 0)

\* 8XY1, 8XY2, 8XY3: V[X] = v; on CHIP8, V[0xF] = 0
Logic(m, cfg, v) ==
    IF cfg.current_extension = "CHIP8"
      THEN SetVXThenVF(m, v, 0)
      ELSE [m EXCEPT !.c.V[m.c.inst.X] = v]

\* mutant: the shifts take VX in every quirks mode
ShiftSource_AlwaysVX(m, cfg) == VX(m)

\* 8XY6 and 8XYE: the operand is VY on CHIP8, VX otherwise
ShiftSource(m, cfg) == IF cfg.current_extension = "CHIP8" THEN VY(m) ELSE VX(m)

\* mutant: the subtractions raise the flag only on a strictly smaller
\* subtrahend (< for <=)
op_8_StrictBorrow(m, cfg) ==
    LET n == m.c.inst.N
        x == VX(m)
        y == VY(m)
        s == ShiftSource(m, cfg)
    IN CASE n = 0 -> [m EXCEPT !.c.V[m.c.inst.X] = y]
         [] n = 1 -> Logic(m, cfg, BitOr(x, y))
         [] n = 2 -> Logic(m, cfg, BitAnd(x, y))
         [] n = 3 -> Logic(m, cfg, BitXor(x, y))
         [] n = 4 -> SetVXThenVF(m, (x + y) % Byte, IF x + y > 255 THEN 1 ELSE 0)
         [] n = 5 -> SetVXThenVF(m, (x + Byte - y) % Byte, IF y < x THEN 1 ELSE 0)
         [] n = 6 -> SetVXThenVF(m, s \div 2, s % 2)
         [] n = 7 -> SetVXThenVF(m, (y + Byte - x) % Byte, IF x < y THEN 1 ELSE 0)
         [] n = 14 -> SetVXThenVF(m, (s * 2) % Byte, s \div 128)
         [] OTHER -> m

\* case 0x08
op_8(m, cfg) ==
    LET n == m.c.inst.N
        x == VX(m)
        y == VY(m)
        s == ShiftSource(m, cfg)
    IN CASE n = 0 -> [m EXCEPT !.c.V[m.c.inst.X] = y]
         [] n = 1 -> Logic(m, cfg, BitOr(x, y))
         [] n = 2 -> Logic(m, cfg, BitAnd(x, y))
         [] n = 3 -> Logic(m, cfg, BitXor(x, y))
         [] n = 4 -> SetVXThenVF(m, (x + y) % Byte, IF x + y > 255 THEN 1 ELSE 0)
         [] n = 5 -> SetVXThenVF(m, (x + Byte - y) % Byte, IF y <= x THEN 1 ELSE 0)
         [] n = 6 -> SetVXThenVF(m, s \div 2, s % 2)
         [] n = 7 -> SetVXThenVF(m, (y + Byte - x) % Byte, IF x <= y THEN 1 ELSE 0)
         [] n = 14 -> SetVXThenVF(m, (s * 2) % Byte, s \div 128)
         [] OTHER -> m

\* 9XY0 (the low nibble is not looked at)
op_9(m) == IF VX(m) # VY(m) THEN SkipNext(m) ELSE m

\* ANNN
op_A(m) == [m EXCEPT !.c.I = m.c.inst.NNN]

\* BNNN
op_B(m) == [m EXCEPT !.c.PC = (m.c.V[0] + m.c.inst.NNN) % Word]

\* CXNN, r is the value of rand() % 256
op_C(m, r) ==
    [m EXCEPT !.c.V[m.c.inst.X] = BitAnd(r, m.c.inst.NN),
              !.used = @ \cup {"r"}]

\* display[p] ^= sprite_bit, with the test for the collision before it; a
\* store past the array is a fault
XorPixel(m, p, sprite_bit) ==
    IF p < DisplaySize
      THEN LET pixel == m.c.display[p]
               m1 == IF sprite_bit /\ pixel THEN [m EXCEPT !.c.V[15] = 1] ELSE m
           IN [m1 EXCEPT !.c.display[p] = (pixel # sprite_bit)]
      ELSE [m EXCEPT !.fault = TRUE]

\* mutant: a row does not stop at the right edge
RECURSIVE DrawRow_NoClip(_, _, _, _, _)
DrawRow_NoClip(m, sprite_data, x, y, j) ==
    IF j < 0 THEN m
    ELSE DrawRow_NoClip(XorPixel(m, y * window_width + x, Bit(sprite_data, j) = 1),
                        sprite_data, x + 1, y, j - 1)

\* mutant: the sprite bit is ORed into the pixel (|= for ^=)
RECURSIVE DrawRow_Or(_, _, _, _, _)
DrawRow_Or(m, sprite_data, x, y, j) ==
    IF j < 0 THEN m
    ELSE LET p == y * window_width + x
             sprite_bit == Bit(sprite_data, j) = 1
             pixel == m.c.display[p]
             m1 == IF sprite_bit /\ pixel THEN [m EXCEPT !.c.V[15] = 1] ELSE m
             m2 == [m1 EXCEPT !.c.display[p] = (pixel \/ sprite_bit)]
         IN IF x + 1 >= window_width THEN m2
            ELSE DrawRow_Or(m2, sprite_data, x + 1, y, j - 1)

\* DXYN, the inner loop: bit j (7 down to 0) of sprite_data at (x, y);
\* stops after the pixel that reaches the right edge
RECURSIVE DrawRow(_, _, _, _, _)
DrawRow(m, sprite_data, x, y, j) ==
    IF j < 0 THEN m
    ELSE LET m2 == XorPixel(m, y * window_width + x, Bit(sprite_data, j) = 1)
         IN IF x + 1 >= window_width THEN m2
            ELSE DrawRow(m2, sprite_data, x + 1, y, j - 1)

\* DXYN, the outer loop: row r of N, read from ram[I + r], at line y;
\* stops after the row that reaches the bottom edge
RECURSIVE DrawSprite(_, _, _, _, _)
DrawSprite(m, orig_X, y, r, ub) ==
    IF r >= m.c.inst.N THEN m
    ELSE LET a == m.c.I + r
             sprite_data == RamRead(m.c, a, ub)
             m1 == DrawRow(NoteRam(m, a), sprite_data, orig_X, y, 7)
         IN IF y + 1 >= window_height THEN m1
            ELSE DrawSprite(m1, orig_X, y + 1, r + 1, ub)

\* mutant: VF is cleared before the coordinates are read
op_D_ClearFirst(m, ub) ==
    LET m0 == [m EXCEPT !.c.V[15] = 0]
        X_coord == VX(m0) % window_width
        Y_coord == VY(m0) % window_height
    IN [DrawSprite(m0, X_coord, Y_coord, 0, ub) EXCEPT !.c.draw = TRUE]

\* DXYN
op_D(m, ub) ==
    LET X_coord == VX(m) % window_width
        Y_coord == VY(m) % window_height
        m0 == [m EXCEPT !.c.V[15] = 0]
    IN [DrawSprite(m0, X_coord, Y_coord, 0, ub) EXCEPT !.c.draw = TRUE]

\* mutant: every EXNN other than EX9E is taken for EXA1 (else for else if)
op_E_ElseSkips(m, ub) ==
    LET m1 == NoteKeypad(m, VX(m))
    IN IF m.c.inst.NN = 158
         THEN IF KeypadRead(m.c, VX(m), ub) THEN SkipNext(m1) ELSE m1
       ELSE IF ~KeypadRead(m.c, VX(m), ub) THEN SkipNext(m1) ELSE m1

\* EX9E, EXA1
op_E(m, ub) ==
    LET m1 == NoteKeypad(m, VX(m))
    IN IF m.c.inst.NN = 158
         THEN IF KeypadRead(m.c, VX(m), ub) THEN SkipNext(m1) ELSE m1
       ELSE IF m.c.inst.NN = 161
         THEN IF ~KeypadRead(m.c, VX(m), ub) THEN SkipNext(m1) ELSE m1
       ELSE m

\* FX0A, the scan of the keypad: the first pressed key, when none is saved
ScanKeypad(m) ==
    IF m.key = NoKey /\ \E k \in 0..(NumKeys-1) : m.c.keypad[k]
      THEN [m EXCEPT
              !.key = CHOOSE k \in 0..(NumKeys-1) :
                         /\ m.c.keypad[k]
                         /\ \A l \in 0..(k-1) : ~m.c.keypad[l],
              !.akp = TRUE]
      ELSE m

\* mutant: VX is written as soon as a key is seen pressed
op_FX0A_NoReleaseWait(m, ub) ==
    LET m1 == ScanKeypad(m)
    IN IF ~m1.akp THEN Retry(m1)
       ELSE [m1 EXCEPT !.c.V[m1.c.inst.X] = m1.key,
                       !.key = NoKey,
                       !.akp = FALSE]

\* mutant: when the saved key is found released the wait starts again
\* without VX being written
op_FX0A_RestartsOnRelease(m, ub) ==
    LET m0 == ScanKeypad(m)
        m1 == IF m0.akp THEN NoteKeypad(m0, m0.key) ELSE m0
    IN IF ~m1.akp THEN Retry(m1)
       ELSE IF KeypadRead(m1.c, m1.key, ub) THEN Retry(m1)
       ELSE Retry([m1 EXCEPT !.key = NoKey, !.akp = FALSE])

\* FX0A
op_FX0A(m, ub) ==
    LET m0 == ScanKeypad(m)
        m1 == IF m0.akp THEN NoteKeypad(m0, m0.key) ELSE m0
    IN IF ~m1.akp THEN Retry(m1)
       ELSE IF KeypadRead(m1.c, m1.key, ub) THEN Retry(m1)
       ELSE [m1 EXCEPT !.c.V[m1.c.inst.X] = m1.key,
                       !.key = NoKey,
                       !.akp = FALSE]

\* mutant: the digits are stored in the opposite order (ones at I)
op_FX33_Reversed(m) ==
    LET bcd == VX(m)
        m1 == RamWrite(m, m.c.I, bcd % 10)
        m2 == RamWrite(m1, m.c.I + 1, (bcd \div 10) % 10)
    IN RamWrite(m2, m.c.I + 2, (bcd \div 10) \div 10)

\* FX33
op_FX33(m) ==
    LET bcd == VX(m)
        m1 == RamWrite(m, m.c.I + 2, bcd % 10)
        m2 == RamWrite(m1, m.c.I + 1, (bcd \div 10) % 10)
    IN RamWrite(m2, m.c.I, (bcd \div 10) \div 10)

\* mutant: FX55 stores at ram[I + r] and keeps I in every quirks mode
RECURSIVE StoreRegs_KeepI(_, _, _)
StoreRegs_KeepI(m, cfg, r) ==
    IF r > m.c.inst.X THEN m
    ELSE StoreRegs_KeepI(RamWrite(m, m.c.I + r, m.c.V[r]), cfg, r + 1)

\* FX55, the loop from register r: CHIP8 stores at ram[I++] (I is uint16_t),
\* the others at ram[I + r]
RECURSIVE StoreRegs(_, _, _)
StoreRegs(m, cfg, r) ==
    IF r > m.c.inst.X THEN m
    ELSE IF cfg.current_extension = "CHIP8"
      THEN StoreRegs([RamWrite(m, m.c.I, m.c.V[r]) EXCEPT !.c.I = (@ + 1) % Word],
                     cfg, r + 1)
      ELSE StoreRegs(RamWrite(m, m.c.I + r, m.c.V[r]), cfg, r + 1)

\* mutant: FX65 reads one byte further on (ram[I + r + 1], ram[++I])
RECURSIVE LoadRegs_OneOff(_, _, _, _)
LoadRegs_OneOff(m, cfg, r, ub) ==
    IF r > m.c.inst.X THEN m
    ELSE IF cfg.current_extension = "CHIP8"
      THEN LoadRegs_OneOff([NoteRam(m, m.c.I + 1) EXCEPT
                              !.c.V[r] = RamRead(m.c, m.c.I + 1, ub),
                              !.c.I = (@ + 1) % Word],
                           cfg, r + 1, ub)
      ELSE LoadRegs_OneOff([NoteRam(m, m.c.I + r + 1) EXCEPT
                              !.c.V[r] = RamRead(m.c, m.c.I + r + 1, ub)],
                           cfg, r + 1, ub)

\* FX65, the loop from register r
RECURSIVE LoadRegs(_, _, _, _)
LoadRegs(m, cfg, r, ub) ==
    IF r > m.c.inst.X THEN m
    ELSE IF cfg.current_extension = "CHIP8"
      THEN LoadRegs([NoteRam(m, m.c.I) EXCEPT
                              !.c.V[r] = RamRead(m.c, m.c.I, ub),
                              !.c.I = (@ + 1) % Word],
                    cfg, r + 1, ub)
      ELSE LoadRegs([NoteRam(m, m.c.I + r) EXCEPT
                              !.c.V[r] = RamRead(m.c, m.c.I + r, ub)],
                    cfg, r + 1, ub)

\* case 0x0F
op_F(m, cfg, ub) ==
    LET nn == m.c.inst.NN
    IN CASE nn = 10  -> op_FX0A(m, ub)
         [] nn = 30  -> [m EXCEPT !.c.I = (@ + VX(m)) % Word]
         [] nn = 7   -> [m EXCEPT !.c.V[m.c.inst.X] = m.c.delay_timer]
         [] nn = 21  -> [m EXCEPT !.c.delay_timer = VX(m)]
         [] nn = 24  -> [m EXCEPT !.c.sound_timer = VX(m)]
         [] nn = 41  -> [m EXCEPT !.c.I = VX(m) * 5]
         [] nn = 51  -> op_FX33(m)
         [] nn = 85  -> StoreRegs(m, cfg, 0)
         [] nn = 101 -> LoadRegs(m, cfg, 0, ub)
         [] OTHER    -> m

\* the switch on the high nibble of the opcode
Dispatch(m, cfg, r, ub, uw) ==
    LET family == m.c.inst.opcode \div 4096
    IN CASE family = 0  -> op_0(m, uw)
         [] family = 1  -> op_1(m)
         [] family = 2  -> op_2NNN(m)
         [] family = 3  -> op_3(m)
         [] family = 4  -> op_4(m)
         [] family = 5  -> op_5(m)
         [] family = 6  -> op_6(m)
         [] family = 7  -> op_7(m)
         [] family = 8  -> op_8(m, cfg)
         [] family = 9  -> op_9(m)
         [] family = 10 -> op_A(m)
         [] family = 11 -> op_B(m)
         [] family = 12 -> op_C(m, r)
         [] family = 13 -> op_D(m, ub)
         [] family = 14 -> op_E(m, ub)
         [] family = 15 -> op_F(m, cfg, ub)

\* emulate_instruction(chip8, config) with the statics akp, k.  o supplies
\* the values that come from outside: o.r is what rand() % 256 returns,
\* o.ubA, o.ubB what reads outside ram[] or keypad[] return, o.uw what a
\* read outside stack[] returns
emulate_instruction(c, cfg, akp, k, o) ==
    LET m0 == [c |-> c, akp |-> akp, key |-> k, touched |-> {}, fault |-> FALSE,
               used |-> {}]
    IN Dispatch(Fetch(m0, o.ubA, o.ubB), cfg, o.r, o.ubA, o.uw)

\* the outside values in the model
Oracles == [r : RandBytes, ubA : UBBytes, ubB : UBBytes, uw : UBWords]
Oracle0 == [r |-> 0, ubA |-> 0, ubB |-> 0, uw |-> 0]

\* the outside values that make a difference to the next instruction: a
\* value the instruction does not read is left at 0
OraclesFor(c, cfg, akp, k) ==
    LET used0 == emulate_instruction(c, cfg, akp, k, Oracle0).used
        used == IF "ub" \notin used0 THEN used0
                ELSE UNION {emulate_instruction(c, cfg, akp, k,
                               [Oracle0 EXCEPT !.ubA = a, !.ubB = b]).used :
                            a \in UBBytes, b \in UBBytes}
    IN UNION {{o \in Oracles :
                 /\ "r" \notin u => o.r = 0
                 /\ "ub" \notin u => o.ubA = 0 /\ o.ubB = 0
                 /\ "uw" \notin u => o.uw = 0} : u \in {used}}

----------------------------------------------------------------------------
(* update_timers, update_screen, handle_input *)

\* mutant: the timers are decremented without the test for 0
update_timers_Wrap(c) ==
    [chip8 |-> [c EXCEPT
                  !.delay_timer = (c.delay_timer + Byte - 1) % Byte,
                  !.sound_timer = (c.sound_timer + Byte - 1) % Byte],
     playing |-> c.sound_timer > 0]

\* update_timers: the new chip8 and whether the audio device plays
update_timers(c) ==
    [chip8 |-> [c EXCEPT
                  !.delay_timer = IF c.delay_timer > 0 THEN c.delay_timer - 1 ELSE 0,
                  !.sound_timer = IF c.sound_timer > 0 THEN c.sound_timer - 1 ELSE 0],
     playing |-> c.sound_timer > 0]

\* the host events handle_input tells apart
HostEvents ==
    {[type |-> "SDL_QUIT", sym |-> "NONE", k |-> 0]}
    \cup {[type |-> "SDL_KEYDOWN", sym |-> s, k |-> 0] :
             s \in {"SDLK_ESCAPE", "SDLK_SPACE", "SDLK_EQUALS"}}
    \cup {[type |-> t, sym |-> "KEYPAD", k |-> kk] :
             t \in {"SDL_KEYDOWN", "SDL_KEYUP"}, kk \in TestKeys}

\* one iteration of the event loop of handle_input; readable says whether
\* the ROM file can be opened should the event be the reset key
handle_event(c, cfg, romv, e, readable) ==
    IF e.type = "SDL_QUIT" THEN [c EXCEPT !.state = "QUIT"]
    ELSE IF e.type = "SDL_KEYDOWN" THEN
        CASE e.sym = "SDLK_ESCAPE" -> [c EXCEPT !.state = "QUIT"]
          [] e.sym = "SDLK_SPACE"  ->
                IF c.state = "RUNNING" THEN [c EXCEPT !.state = "PAUSED"]
                ELSE [c EXCEPT !.state = "RUNNING"]
          [] e.sym = "SDLK_EQUALS" -> init_chip8(romv, readable).chip8
          [] OTHER -> [c EXCEPT !.keypad[e.k] = TRUE]
    ELSE [c EXCEPT !.keypad[e.k] = FALSE]

----------------------------------------------------------------------------
(* main *)

\* config.insts_per_second / 60, the number of iterations of the frame loop
InstsPerFrame == insts_per_second \div FrameRate

\* mutant: the display wait in every quirks mode
DisplayWait_AnyMode(c, cfg) == c.inst.opcode \div 4096 = 13

\* the break of the frame loop: on CHIP8 a frame ends after a DXYN
DisplayWait(c, cfg) ==
    cfg.current_extension = "CHIP8" /\ c.inst.opcode \div 4096 = 13

\* the opcodes of a program as the bytes of a ROM file (big-endian)
Prog(ops) ==
    [b \in 1..(2 * Len(ops)) |->
        IF b % 2 = 1 THEN ops[(b + 1) \div 2] \div 256 ELSE ops[b \div 2] % 256]

Extensions == {"CHIP8", "SUPERCHIP", "XOCHIP"}

\* main up to init_chip8, for a ROM file with content romv, with the quirks
\* mode ext: config, init_sdl (the audio device starts paused), chip8 = {0}.
\* set_config_from_args always leaves current_extension at CHIP8; the other
\* two modes are taken as values of the config parameter that
\* emulate_instruction and the frame loop branch on.
InitWith(romv, ext) ==
    /\ rom = romv
    /\ config = [current_extension |-> ext]
    /\ chip8 = BlankChip8
    /\ pc = "start"
    /\ any_key_pressed = FALSE
    /\ key = NoKey
    /\ i = 0
    /\ screen = [p \in 0..(DisplaySize-1) |-> FALSE]
    /\ playing = FALSE
    /\ touched = {}
    /\ frames = 0

\* init_chip8 of main and clear_screen; exit(EXIT_FAILURE) when it fails.
\* The ROM file can or cannot be opened.
Construct ==
    /\ pc = "start"
    /\ \E readable \in BOOLEAN :
          /\ chip8' = init_chip8(rom, readable).chip8
          /\ pc' = IF init_chip8(rom, readable).ok THEN "poll" ELSE "exit"
    /\ screen' = [p \in 0..(DisplaySize-1) |-> FALSE]
    /\ UNCHANGED <<config, any_key_pressed, key, rom, i, playing, touched, frames>>

\* what fopen(chip8->rom_name) does at a reset: the file opens or does not;
\* with rom_name the null pointer (left by a reset that failed) the call is
\* undefined: it fails, or the process goes wrong
OpenOutcomes(c, e) ==
    IF e.sym # "SDLK_EQUALS" THEN {"none"}
    ELSE IF c.rom_name = "NULL" THEN {"fails", "undefined"}
    ELSE {"opens", "fails"}

\* handle_input, one event of the queue
HandleEvent ==
    /\ pc = "poll"
    /\ \E e \in HostEvents :
          \E open \in OpenOutcomes(chip8, e) :
             /\ chip8' = handle_event(chip8, config, rom, e, open = "opens")
             /\ pc' = IF open = "undefined" THEN "undefined" ELSE pc
    /\ UNCHANGED <<config, any_key_pressed, key, rom, i, screen, playing,
                   touched, frames>>

\* the keys of the host that only uses the keypad
LiveKeys == {0, 1}

\* handle_input, one event of the queue, of a host that only presses and
\* releases keys of the keypad (no quit, no pause, no reset)
KeypadEvent ==
    /\ pc = "poll"
    /\ \E e \in HostEvents :
          /\ e.sym = "KEYPAD"
          /\ e.k \in LiveKeys
          /\ chip8' = handle_event(chip8, config, rom, e, FALSE)
    /\ UNCHANGED <<config, any_key_pressed, key, rom, pc, i, screen, playing,
                   touched, frames>>

\* mutant: without the continue of main a paused machine starts the frame
PollDone_NoContinue ==
    /\ pc = "poll"
    /\ frames < MaxFrames
    /\ pc' = "exec"
    /\ i' = 0
    /\ frames' = frames + 1
    /\ UNCHANGED <<chip8, config, any_key_pressed, key, rom, screen, playing,
                   touched>>

\* handle_input returns (the queue is empty); a paused machine goes round
\* the loop, a running one starts the frame
PollDone ==
    /\ pc = "poll"
    /\ IF chip8.state = "PAUSED"
         THEN UNCHANGED <<pc, i, frames>>
         ELSE /\ frames < MaxFrames
              /\ pc' = "exec"
              /\ i' = 0
              /\ frames' = frames + 1
    /\ UNCHANGED <<chip8, config, any_key_pressed, key, rom, screen, playing,
                   touched>>

\* one iteration of the frame loop: emulate_instruction, the display wait,
\* i++ and the loop test.  After a store outside an array (m.fault) the
\* behaviour of the process is undefined and no step of the model follows.
Emulate ==
    /\ pc = "exec"
    /\ \E o \in OraclesFor(chip8, config, any_key_pressed, key) :
          \E m \in {emulate_instruction(chip8, config, any_key_pressed, key, o)} :
             /\ chip8' = m.c
             /\ any_key_pressed' = m.akp
             /\ key' = m.key
             /\ touched' = m.touched
             /\ IF m.fault
                  THEN pc' = "undefined" /\ i' = i
                ELSE IF DisplayWait(m.c, config)
                  THEN pc' = "frame_end" /\ i' = i
                ELSE /\ i' = i + 1
                     /\ pc' = IF i + 1 < InstsPerFrame THEN "exec" ELSE "frame_end"
    /\ UNCHANGED <<config, rom, screen, playing, frames>>

\* the end of the frame: update_screen when draw is set, update_timers,
\* and the test of the main loop
FrameEnd ==
    /\ pc = "frame_end"
    /\ screen' = IF chip8.draw THEN chip8.display ELSE screen
    /\ chip8' = update_timers([chip8 EXCEPT !.draw = FALSE]).chip8
    /\ playing' = update_timers(chip8).playing
    /\ pc' = IF chip8.state = "QUIT" THEN "exit" ELSE "poll"
    /\ UNCHANGED <<config, any_key_pressed, key, rom, i, touched, frames>>

Next == Construct \/ HandleEvent \/ PollDone \/ Emulate \/ FrameEnd

\* the main loop while the event queue stays empty: handle_input returns
\* at once, and the machine runs the program on its own
NextNoInput == Construct \/ PollDone \/ Emulate \/ FrameEnd

\* the main loop with a host that only uses the keypad
NextKeys == Construct \/ KeypadEvent \/ PollDone \/ Emulate \/ FrameEnd

----------------------------------------------------------------------------
(* Programs *)

\* 0x200 F50A   V5 = key
\* 0x202 F60A   V6 = key
\* 0x204 1200   jump 0x200
KeyRom == Prog(<<62730, 63242, 4608>>)

\* 0x200 6003   V0 = 3
\* 0x202 F015   delay = V0
\* 0x204 6001   V0 = 1
\* 0x206 F018   sound = V0
\* 0x208 F107   V1 = delay
\* 0x20A D011   draw 1 row of the glyph at I = 0 at (V0, V1)
\* 0x20C 00E0   clear
\* 0x20E 1208   jump 0x208
TimerRom == Prog(<<24579, 61461, 24577, 61464, 61703, 53265, 224, 4616>>)

\* 0x200 D005   draw the glyph 0
\* 0x202 D005   draw it again
\* 0x204 1204   halt
DrawRom == Prog(<<53253, 53253, 4612>>)

\* twelve nested calls and their returns:
\* 0x200 2204, 0x202 1202 (halt); for k in 1..11: 0x200+4k 2(0x204+4k),
\* 0x202+4k 00EE; 0x230 00EE
CallRom ==
    Prog([n \in 1..25 |->
            IF n = 25 THEN 238
            ELSE IF n % 2 = 1 THEN 8192 + entry_point + 2 * (n + 1)
            ELSE IF n = 2 THEN 4610
            ELSE 238])

\* 0x200 2200   call 0x200: a recursion without return
OverflowRom == Prog(<<8704>>)

\* 0x200 00EE   return without call
UnderflowRom == Prog(<<238>>)

\* 0x200 2204   call 0x204
\* 0x202 1202   halt
\* 0x204 01EE   a 0NNN with the low byte EE
LowByteRom == Prog(<<8708, 4610, 494>>)

\* 0x200 1FFF   jump to the last byte of ram
JumpLastRom == Prog(<<8191>>)

\* 0x200 AFFE   I = 0xFFE
\* 0x202 F033   BCD of V0 at I, I+1, I+2
BcdEndRom == Prog(<<45054, 61491>>)

\* 0x200 AFFF   I = 0xFFF
\* 0x202 F165   load V0, V1 from I
\* 0x204 D002   draw 2 rows from I
\* 0x206 F155   store V0, V1 at I
LoadEndRom == Prog(<<45055, 61797, 53250, 61781>>)

\* 0x200 60FF   V0 = 0xFF
\* 0x202 BFFF   jump to 0xFFF + V0
JumpV0Rom == Prog(<<24831, 49151>>)

\* the arithmetic of case 0x08 on VX = a, VY = b, with VF = 7 at the start:
\* 0x200 6F07; then for N = 1, 4, 2, 5, 3, 7, 0, 6, E in turn 6Xaa 6Ybb 8XYN;
\* 0x238 1238 (halt)
AluOps == <<1, 4, 2, 5, 3, 7, 0, 6, 14>>
AluRom(x, y, a, b) ==
    Prog([n \in 1..(3 * Len(AluOps) + 2) |->
            IF n = 1 THEN 28423
            ELSE IF n = 3 * Len(AluOps) + 2 THEN 4096 + entry_point + 2 * (n - 1)
            ELSE IF n % 3 = 2 THEN 24576 + 256 * x + a
            ELSE IF n % 3 = 0 THEN 24576 + 256 * y + b
            ELSE 32768 + 256 * x + 16 * y + AluOps[(n - 1) \div 3]])

\* the registers stored and loaded, up to VX, at base:
\* 0x200 6r(16r+5) for r = 0..F     0x220 A(base)
\* 0x222 FX55    0x224 FX65         0x226 A(base)   0x228 FX65
\* 0x22A A202    0x22C FX65         0x22E 122E (halt)
RegRom(x, base) ==
    Prog([n \in 1..24 |->
            IF n <= 16 THEN 24576 + 256 * (n - 1) + 16 * (n - 1) + 5
            ELSE IF n \in {17, 20} THEN 40960 + base
            ELSE IF n = 18 THEN 61440 + 256 * x + 85
            ELSE IF n = 22 THEN 40960 + entry_point + 2
            ELSE IF n = 24 THEN 4096 + entry_point + 46
            ELSE 61440 + 256 * x + 101])

\* where the registers are stored: in the middle and at the end of ram[]
RegBases == {768, 4080}

\* the decimal digits of v0, v0 + 32, ..., v0 + 224 in VX, stored at base:
\* 0x200 6X(v0)   0x202 A(base)   then eight times FX33 7X20;
\* 0x224 1224 (halt)
BcdRom(x, v0, base) ==
    Prog([n \in 1..19 |->
            IF n = 1 THEN 24576 + 256 * x + v0
            ELSE IF n = 2 THEN 40960 + base
            ELSE IF n = 19 THEN 4096 + entry_point + 36
            ELSE IF n % 2 = 1 THEN 61440 + 256 * x + 51
            ELSE 28672 + 256 * x + 32])

\* where the digits are stored: in the middle and in the last three bytes
\* of ram[]
BcdBases == {768, 4093}

\* the low bytes and nibbles the switches on an 8XYN, EXNN, FXNN know
Known8 == {0, 1, 2, 3, 4, 5, 6, 7, 14}
KnownE == {158, 161}
KnownF == {7, 10, 21, 24, 30, 41, 51, 85, 101}

\* the j-th number of 0..255, counted from 0, that is not in S
NthNotIn(S, j) ==
    CHOOSE v \in (0..255) \ S : Cardinality({u \in (0..255) \ S : u < v}) = j

\* the opcodes of the families 8, E, F with a sub-code the code does not
\* know, numbered k = 0..507; X and Y vary with k
NumUnknown ==
    (16 - Cardinality(Known8)) + (256 - Cardinality(KnownE))
        + (256 - Cardinality(KnownF))
UnknownOp(k) ==
    LET xy == 256 * (k % 16) + 16 * ((k \div 3) % 16)
    IN IF k < 7 THEN 32768 + xy + NthNotIn(Known8 \cup (16..255), k)
       ELSE IF k < 261 THEN 57344 + 256 * (k % 16) + NthNotIn(KnownE, k - 7)
       ELSE 61440 + 256 * (k % 16) + NthNotIn(KnownF, k - 261)

\* 25 of them in a row:
\* 0x200 6109   0x202 6F03   0x204 A300   0x206 F115 (delay timer = 9)
\* 0x208 .. 0x238 UnknownOp(25 b + 0 .. 24), a halt where they run out
\* 0x23A 123A (halt)
UnknownRom(b) ==
    Prog([n \in 1..30 |->
            IF n = 1 THEN 24841
            ELSE IF n = 2 THEN 28419
            ELSE IF n = 3 THEN 41728
            ELSE IF n = 4 THEN 61717
            ELSE IF n = 30 \/ 25 * b + n - 5 >= NumUnknown
              THEN 4096 + entry_point + 2 * (n - 1)
            ELSE UnknownOp(25 * b + n - 5)])

\* the compares with a low nibble n: 0x200 61aa  0x202 62bb  0x204 512n
\* 0x206 912n  0x208 .. 0x20E 6301 6302 6303 6304  0x210 1210 (halt)
CompareRom(n, a, b) ==
    Prog(<<24832 + a, 25088 + b, 20768 + n, 37152 + n,
           25345, 25346, 25347, 25348, 4096 + entry_point + 16>>)

\* a ROM file of len bytes: 0x200 1200 (halt), then bytes other than 0
BootRom(len) ==
    [b \in 1..len |-> IF b = 1 THEN 18 ELSE IF b = 2 THEN 0 ELSE (b % 255) + 1]

\* the lengths of the ROM files: empty, one byte, the largest that fits
\* and the smallest that does not
BootLens == {0, 1, max_size, max_size + 1}

\* sixteen bytes of sprite data, as eight words
SpriteData == <<65409, 15525, 4080, 21930, 384, 6270, 50073, 26367>>

\* three draws of the same sprite:
\* 0x200 D005 (the glyph 0 at (0, 0)) when pre, else 6000
\* 0x202 6Xvx   0x204 6Yvy   0x206 A210
\* 0x208 DXYN   0x20A DXYN   0x20C DXYN
\* 0x20E 120E (halt)         0x210 SpriteData
SpriteRom(pre, x, y, vx, vy, n) ==
    LET d == 53248 + 256 * x + 16 * y + n
    IN Prog(<<IF pre THEN 53253 ELSE 24576,
              24576 + 256 * x + vx,
              24576 + 256 * y + vy,
              40960 + entry_point + 16,
              d, d, d,
              4096 + entry_point + 14>> \o SpriteData)

\* the coordinates and heights of the sprite programs
DrawXs == {0, 60, 70, 255}
DrawYs == {0, 29, 40, 255}
DrawNs == {0, 1, 5, 15}

\* register numbers and register values of the arithmetic programs
AluX == {1, 15}
AluY == {1, 2, 15}
AluBytes == {0, 1, 3, 128, 255}

InitKey == \E ext \in {"CHIP8", "SUPERCHIP"} : InitWith(KeyRom, ext)

InitFrame ==
    \E romv \in {TimerRom, DrawRom}, ext \in Extensions : InitWith(romv, ext)

InitStack ==
    \E romv \in {CallRom, OverflowRom, UnderflowRom, LowByteRom} :
        InitWith(romv, "CHIP8")

InitMem ==
    \E romv \in {JumpLastRom, BcdEndRom, LoadEndRom, JumpV0Rom},
       ext \in {"CHIP8", "SUPERCHIP"} : InitWith(romv, ext)

InitAlu ==
    \E x \in AluX, y \in AluY, a \in AluBytes, b \in AluBytes, ext \in Extensions :
        InitWith(AluRom(x, y, a, b), ext)

InitDraw ==
    \E ext \in {"CHIP8", "SUPERCHIP"} :
        \/ \E pre \in BOOLEAN, vx \in DrawXs, vy \in DrawYs, n \in DrawNs :
              InitWith(SpriteRom(pre, 1, 2, vx, vy, n), ext)
        \/ \E xy \in {<<15, 2>>, <<1, 15>>}, vx \in {0, 60}, vy \in {0, 29} :
              InitWith(SpriteRom(TRUE, xy[1], xy[2], vx, vy, 5), ext)

InitRegs ==
    \E x \in 0..(NumRegs-1), base \in RegBases, ext \in Extensions :
        InitWith(RegRom(x, base), ext)

InitBcd ==
    \E x \in {0, 15}, v0 \in 0..31, base \in BcdBases, ext \in {"CHIP8", "SUPERCHIP"} :
        InitWith(BcdRom(x, v0, base), ext)

InitDecode ==
    \E ext \in {"CHIP8", "SUPERCHIP"} :
        \/ \E b \in 0..((NumUnknown - 1) \div 25) : InitWith(UnknownRom(b), ext)
        \/ \E n \in {0, 1, 15}, ab \in {<<5, 5>>, <<5, 6>>} :
              InitWith(CompareRom(n, ab[1], ab[2]), ext)

\* 0x200 6F07   VF = 7
\* 0x202 6Xaa   VX = a
\* 0x204 7Xbb   VX += b
\* 0x206 1206   halt
ImmRom(x, a, b) ==
    Prog(<<28423, 24576 + 256 * x + a, 28672 + 256 * x + b, 4614>>)
ImmX == {0, 10, 15}
ImmBytes == {0, 5, 18, 200, 255}

InitImm ==
    \E x \in ImmX, a \in ImmBytes, b \in ImmBytes, ext \in {"CHIP8", "SUPERCHIP"} :
        InitWith(ImmRom(x, a, b), ext)

\* a 0XNN reached by a call, after a draw:
\* 0x200 2204   call 0x204        0x202 1202   halt
\* 0x204 D005   draw the glyph 0  0x206 0XNN
\* 0x208 1208   halt
ZeroRom(x, nn) == Prog(<<8708, 4610, 53253, 256 * x + nn, 4616>>)
ZeroX == {0, 1, 15}
ZeroNN == {0, 224, 225, 238, 255}

InitZero ==
    \E x \in ZeroX, nn \in ZeroNN, ext \in {"CHIP8", "SUPERCHIP"} :
        InitWith(ZeroRom(x, nn), ext)

\* the two skips on a key, with VX = v:
\* 0x200 61vv   V1 = v            0x202 E19E   skip if key V1 is down
\* 0x204 6201   V2 = 1            0x206 E1A1   skip if key V1 is up
\* 0x208 6301   V3 = 1            0x20A 120A   halt
SkipKeyRom(v) == Prog(<<24832 + v, 57758, 25089, 57761, 25345, 4618>>)
SkipKeyValues == {0, 1, 16, 255}

InitSkipKey == \E v \in SkipKeyValues : InitWith(SkipKeyRom(v), "CHIP8")

InitKeyLive == InitWith(KeyRom, "CHIP8")

InitBoot == \E len \in BootLens : InitWith(BootRom(len), "CHIP8")

\* the key wait
SpecKey == InitKey /\ [][Next]_vars
\* the frame loop and the timers
SpecFrame == InitFrame /\ [][Next]_vars
\* the subroutine stack
SpecStack == InitStack /\ [][Next]_vars
\* the addresses into ram[]
SpecMem == InitMem /\ [][Next]_vars
\* the arithmetic and logic instructions
SpecAlu == InitAlu /\ [][NextNoInput]_vars
\* the draw instruction
SpecDraw == InitDraw /\ [][NextNoInput]_vars
\* the register store and load
SpecRegs == InitRegs /\ [][NextNoInput]_vars
\* the decimal digits
SpecBcd == InitBcd /\ [][NextNoInput]_vars
\* the opcodes the switches do not know
SpecDecode == InitDecode /\ [][NextNoInput]_vars
\* the construction at the start and at a reset
SpecBoot == InitBoot /\ [][Next]_vars
\* the key wait while the machine keeps running: the frame loop does not
\* stop between two instructions (main, lines 1131-1138)
SpecKeyLive == InitKeyLive /\ [][NextKeys]_vars /\ WF_vars(Emulate)
\* the skips on a key, with a host that uses the keypad
SpecSkipKey == InitSkipKey /\ [][NextKeys]_vars
\* the instructions of the family 0
SpecZero == InitZero /\ [][NextNoInput]_vars
\* the instructions with an immediate operand
SpecImm == InitImm /\ [][NextNoInput]_vars

----------------------------------------------------------------------------
(* Shorthands for the claims *)

\* the step is one iteration of the frame loop; chip8'.inst is then the
\* instruction it executed
ExecStep == pc = "exec"

Family(op) == op \div 4096
IsFX0A(op) == Family(op) = 15 /\ op % 256 = 10
NoKeyDown(c) == \A k \in 0..(NumKeys-1) : ~c.keypad[k]
FirstKeyDown(c) ==
    CHOOSE k \in 0..(NumKeys-1) : c.keypad[k] /\ \A l \in 0..(k-1) : ~c.keypad[l]

\* the key an FX0A step looks at: the saved one, else the first pressed one
\* (NoKey when there is neither)
ObservedKey ==
    IF key # NoKey THEN key
    ELSE IF NoKeyDown(chip8) THEN NoKey
    ELSE FirstKeyDown(chip8)

----------------------------------------------------------------------------
(* C1: during an FX0A wait VX is not written while the key first observed  *)
(* pressed is still pressed; VX is written only at the FX0A step that      *)
(* observes that key released, with that key's index (0..15); the saved    *)
(* key is changed by no other step, whatever other keys do meanwhile.      *)
C1_KeyWaitWritesOnRelease ==
    [][/\ (ExecStep /\ IsFX0A(chip8'.inst.opcode)) =>
            /\ (ObservedKey # NoKey /\ chip8.keypad[ObservedKey]) =>
                  /\ chip8'.V = chip8.V
                  /\ chip8'.PC = chip8.PC
                  /\ key' = ObservedKey
            /\ (chip8'.V # chip8.V \/ chip8'.PC # chip8.PC) =>
                  /\ key \in 0..(NumKeys-1)
                  /\ ~chip8.keypad[key]
                  /\ chip8'.V = [chip8.V EXCEPT ![chip8'.inst.X] = key]
                  /\ chip8'.PC = (chip8.PC + 2) % Word
                  /\ key' = NoKey
            /\ key # NoKey => key' \in {key, NoKey}
       /\ ~(ExecStep /\ IsFX0A(chip8'.inst.opcode)) => key' = key
      ]_vars

\* F50A has completed with key 1 although key 0 is down: key 1 was saved
\* first, key 0 went down during the wait, key 1 was released
C1_Witness ==
    /\ chip8.inst.opcode = 62730
    /\ chip8.PC = 514
    /\ chip8.V[5] = 1
    /\ chip8.keypad[0]
    /\ key = NoKey

(* C2: an FX0A step with no key pressed and no key saved is a pure retry:  *)
(* afterwards PC is the address of the FX0A again and nothing of the       *)
(* machine but the current-instruction record has changed.                 *)
C2_KeyWaitRetryIsPure ==
    [][(ExecStep /\ IsFX0A(chip8'.inst.opcode) /\ key = NoKey /\ NoKeyDown(chip8)) =>
            /\ chip8' = [chip8 EXCEPT !.inst = chip8'.inst]
            /\ chip8'.PC = chip8.PC
            /\ key' = NoKey
            /\ any_key_pressed' = FALSE
            /\ pc' # "undefined"
      ]_vars

\* three retries of the F50A at 0x200 in the first frame
C2_Witness ==
    /\ frames = 1
    /\ i = 3
    /\ chip8.inst.opcode = 62730
    /\ chip8.PC = 512
    /\ key = NoKey
    /\ NoKeyDown(chip8)
    /\ chip8.V = ZeroedChip8.V

(* C3: after a reset the key wait is idle: a machine that is in its        *)
(* freshly constructed state has no key saved.                             *)
C3_ResetDiscardsKeyWait ==
    (chip8 = init_chip8(rom, TRUE).chip8) => (key = NoKey /\ ~any_key_pressed)

(* C4: a frame executes exactly InstsPerFrame instructions, except that   *)
(* on CHIP8 the batch ends right after the first DXYN; in the other modes  *)
(* a DXYN never shortens the batch.  i counts the instructions of the      *)
(* frame that have been executed without ending it.                        *)
C4_FrameBatch ==
    [][/\ (pc = "poll" /\ pc' = "exec") => i' = 0
       /\ (ExecStep /\ pc' # "undefined") =>
            LET wait == /\ config.current_extension = "CHIP8"
                        /\ Family(chip8'.inst.opcode) = 13
            IN /\ i < InstsPerFrame
               /\ wait => pc' = "frame_end"
               /\ ~wait => /\ i' = i + 1
                           /\ pc' = "frame_end" <=> i' = InstsPerFrame
                           /\ pc' = "exec" <=> i' < InstsPerFrame
      ]_vars

\* on CHIP8 the first frame of TimerRom has ended with its sixth
\* instruction, the DXYN
C4_Witness ==
    /\ pc = "frame_end"
    /\ config.current_extension = "CHIP8"
    /\ Family(chip8.inst.opcode) = 13
    /\ frames = 1
    /\ i = 5

Dec(t) == IF t > 0 THEN t - 1 ELSE 0

\* the step is a reset (successful or not)
ResetStep ==
    /\ pc = "poll"
    /\ chip8'.inst = NoInst
    /\ chip8' \in {init_chip8(rom, TRUE).chip8, ZeroedChip8}

(* C5: the end of every frame lowers each timer by 1 when it is above 0    *)
(* and leaves it at 0 otherwise; an instruction changes the delay timer    *)
(* only as FX15 (to VX) and the sound timer only as FX18 (to VX); between  *)
(* frames the timers change only by a reset.                               *)
C5_Timers ==
    [][/\ pc = "frame_end" =>
            /\ chip8'.delay_timer = Dec(chip8.delay_timer)
            /\ chip8'.sound_timer = Dec(chip8.sound_timer)
       /\ ExecStep =>
            /\ chip8'.delay_timer # chip8.delay_timer =>
                  /\ Family(chip8'.inst.opcode) = 15
                  /\ chip8'.inst.NN = 21
                  /\ chip8'.delay_timer = chip8.V[chip8'.inst.X]
            /\ chip8'.sound_timer # chip8.sound_timer =>
                  /\ Family(chip8'.inst.opcode) = 15
                  /\ chip8'.inst.NN = 24
                  /\ chip8'.sound_timer = chip8.V[chip8'.inst.X]
       /\ pc = "poll" =>
            \/ /\ chip8'.delay_timer = chip8.delay_timer
               /\ chip8'.sound_timer = chip8.sound_timer
            \/ ResetStep
      ]_vars

\* TimerRom after two frames: the delay timer has gone 3, 2, 1 and the
\* sound timer 1, 0, 0
C5_Witness ==
    /\ rom = TimerRom
    /\ pc = "poll"
    /\ frames = 2
    /\ chip8.delay_timer = 1
    /\ chip8.sound_timer = 0
    /\ chip8.V[1] = 2

(* C6: in every reachable state the depth of the subroutine stack is      *)
(* between 0 and StackSize.                                                *)
C6_StackDepthInBounds ==
    ~chip8.stack_ptr_null => (0 <= chip8.stack_ptr /\ chip8.stack_ptr <= StackSize)

(* C7: a 00EE executed with an empty stack leaves PC at the address after  *)
(* the 00EE and the stack empty.                                           *)
C7_ReturnOnEmptyStack ==
    [][(ExecStep /\ chip8'.inst.opcode = 238
                 /\ ~chip8.stack_ptr_null /\ chip8.stack_ptr = 0) =>
            /\ chip8'.PC = (chip8.PC + 2) % Word
            /\ chip8'.stack_ptr = 0
      ]_vars

\* the step executes a 00EE (as the code tells it: family 0, low byte EE)
ReturnStep == ExecStep /\ Family(chip8'.inst.opcode) = 0 /\ chip8'.inst.NN = 238
\* the step executes a 2NNN
CallStep == ExecStep /\ Family(chip8'.inst.opcode) = 2

(* C8: calls and returns are LIFO.  A 2NNN at address A with room on the   *)
(* stack stores A+2 on top of it, leaves the slots below alone and sets    *)
(* PC = NNN; a 00EE with a non-empty stack sets PC to the top slot and     *)
(* takes it off, leaving the slots alone; no other instruction touches the *)
(* stack.  Hence up to StackSize nested calls return in reverse order to   *)
(* the depth before the first.                                             *)
C8_CallReturnLifo ==
    [][/\ (CallStep /\ ~chip8.stack_ptr_null
                    /\ 0 <= chip8.stack_ptr /\ chip8.stack_ptr < StackSize) =>
            /\ chip8'.stack =
                  [chip8.stack EXCEPT ![chip8.stack_ptr] = (chip8.PC + 2) % Word]
            /\ chip8'.stack_ptr = chip8.stack_ptr + 1
            /\ chip8'.PC = chip8'.inst.NNN
            /\ pc' # "undefined"
       /\ (ExecStep /\ chip8'.inst.opcode = 238 /\ ~chip8.stack_ptr_null
                    /\ 0 < chip8.stack_ptr /\ chip8.stack_ptr <= StackSize) =>
            /\ chip8'.PC = chip8.stack[chip8.stack_ptr - 1]
            /\ chip8'.stack_ptr = chip8.stack_ptr - 1
            /\ chip8'.stack = chip8.stack
       /\ (ExecStep /\ ~CallStep /\ ~ReturnStep) =>
            /\ chip8'.stack = chip8.stack
            /\ chip8'.stack_ptr = chip8.stack_ptr
      ]_vars

\* CallRom is back at its halt at 0x202 with an empty stack, after twelve
\* nested calls: the slots hold the twelve return addresses 0x202 + 4k
C8_Witness ==
    /\ rom = CallRom
    /\ chip8.PC = 514
    /\ chip8.inst.opcode = 238
    /\ chip8.stack_ptr = 0
    /\ \A k \in 0..(StackSize-1) : chip8.stack[k] = 514 + 4 * k

(* C9: no instruction uses an index into ram[] of RamSize or more.         *)
C9_RamAccessInBounds == \A a \in touched : a < RamSize

(* C10: an instruction other than 1NNN, 2NNN, BNNN and 00EE changes PC by  *)
(* +2, by +4 (only a skip 3XNN, 4XNN, 5XY0, 9XY0, EX9E, EXA1) or by 0      *)
(* (only an FX0A), in 16-bit arithmetic.                                   *)
C10_PCStep ==
    [][ExecStep =>
          LET op == chip8'.inst.opcode
              f == Family(op)
              jump == f \in {1, 2, 11} \/ op = 238
              skip == \/ f \in {3, 4}
                      \/ (f \in {5, 9} /\ chip8'.inst.N = 0)
                      \/ (f = 14 /\ chip8'.inst.NN \in {158, 161})
          IN ~jump =>
                \/ chip8'.PC = (chip8.PC + 2) % Word
                \/ skip /\ chip8'.PC = (chip8.PC + 4) % Word
                \/ IsFX0A(op) /\ chip8'.PC = chip8.PC
      ]_vars

----------------------------------------------------------------------------
(* The arithmetic and logic instructions *)

\* the step executes an 8XYN with low nibble n
AluStep(n) == ExecStep /\ Family(chip8'.inst.opcode) = 8 /\ chip8'.inst.N = n

\* the registers after the step are those before it, but for VX = v (when
\* X is not F) and VF = flag
WritesVXAndFlag(v, flag) ==
    /\ chip8'.V[15] = flag
    /\ chip8'.inst.X # 15 => chip8'.V[chip8'.inst.X] = v
    /\ \A r \in 0..(NumRegs-1) :
          r \notin {chip8'.inst.X, 15} => chip8'.V[r] = chip8.V[r]

(* C11: 8XY4 sets VX to (VX + VY) mod 256 and VF to 1 when the sum of the   *)
(* values VX and VY held before the instruction exceeds 255, to 0          *)
(* otherwise, for all X and Y; with X = F, VF ends as the carry.           *)
C11_AddCarry ==
    [][AluStep(4) =>
          LET sum == chip8.V[chip8'.inst.X] + chip8.V[chip8'.inst.Y]
          IN WritesVXAndFlag(sum % Byte, IF sum > 255 THEN 1 ELSE 0)
      ]_vars

\* 8FF4 on VF = 128: the sum is 256, VF is the carry 1 and not the sum 0
C11_Witness ==
    /\ chip8.inst.opcode = 36852
    /\ chip8.V[15] = 1
    /\ rom = AluRom(15, 15, 128, 128)

(* C12: 8XY5 sets VX to (VX - VY) mod 256 and VF to 1 when VY <= VX;       *)
(* 8XY7 sets VX to (VY - VX) mod 256 and VF to 1 when VX <= VY; VF is 0     *)
(* otherwise.  The comparison is on the values held before the instruction *)
(* and the flag is what VF holds at the end, also with X = F or Y = F.     *)
C12_SubtractNoBorrow ==
    [][LET x == chip8.V[chip8'.inst.X]
           y == chip8.V[chip8'.inst.Y]
       IN /\ AluStep(5) =>
                WritesVXAndFlag((x + Byte - y) % Byte, IF y <= x THEN 1 ELSE 0)
          /\ AluStep(7) =>
                WritesVXAndFlag((y + Byte - x) % Byte, IF x <= y THEN 1 ELSE 0)
      ]_vars

\* 8125 on V1 = V2 = 3: the difference is 0 and there is no borrow
C12_Witness ==
    /\ chip8.inst.opcode = 33061
    /\ chip8.V[1] = 0
    /\ chip8.V[2] = 3
    /\ chip8.V[15] = 1
    /\ rom = AluRom(1, 2, 3, 3)

(* C13: 8XY6 and 8XYE shift VY into VX on CHIP8 (VX = VY >> 1, resp.       *)
(* (VY << 1) mod 256; VF = the low, resp. high, bit VY had; VY is kept when *)
(* Y is neither X nor F) and shift VX in place in the other modes (VF =    *)
(* the low, resp. high, bit VX had; VY plays no part and is kept).         *)
C13_ShiftSource ==
    [][LET src == IF config.current_extension = "CHIP8"
                    THEN chip8.V[chip8'.inst.Y]
                    ELSE chip8.V[chip8'.inst.X]
       IN /\ AluStep(6) => WritesVXAndFlag(src \div 2, src % 2)
          /\ AluStep(14) => WritesVXAndFlag((2 * src) % Byte, src \div 128)
      ]_vars

\* 8126 on CHIP8 with V1 = 0, V2 = 3: V1 = 1, VF = 1, V2 still 3
C13_Witness ==
    /\ chip8.inst.opcode = 33062
    /\ config.current_extension = "CHIP8"
    /\ chip8.V[1] = 1
    /\ chip8.V[2] = 3
    /\ chip8.V[15] = 1
    /\ rom = AluRom(1, 2, 0, 3)

\* v is a OR b, a AND b, a XOR b, bit by bit
IsOr(v, a, b) ==
    \A j \in 0..7 : (Bit(v, j) = 1) <=> (Bit(a, j) = 1 \/ Bit(b, j) = 1)
IsAnd(v, a, b) ==
    \A j \in 0..7 : (Bit(v, j) = 1) <=> (Bit(a, j) = 1 /\ Bit(b, j) = 1)
IsXor(v, a, b) ==
    \A j \in 0..7 : (Bit(v, j) = 1) <=> (Bit(a, j) # Bit(b, j))

\* the value 8XY1, 8XY2, 8XY3 (n = 1, 2, 3) compute from a and b
IsLogic(n, v, a, b) ==
    /\ v \in 0..(Byte-1)
    /\ n = 1 => IsOr(v, a, b)
    /\ n = 2 => IsAnd(v, a, b)
    /\ n = 3 => IsXor(v, a, b)

(* C14: 8XY1, 8XY2, 8XY3 set VX to VX OR, AND, XOR VY.  On CHIP8 VF is 0    *)
(* afterwards for every X and Y; in the other modes VF keeps its value     *)
(* whenever X is not F.  8XY0 copies VY to VX and changes no other         *)
(* register in any mode.                                                   *)
C14_LogicAndCopy ==
    [][LET X == chip8'.inst.X
           x == chip8.V[X]
           y == chip8.V[chip8'.inst.Y]
           others == \A r \in 0..(NumRegs-1) :
                        r \notin {X, 15} => chip8'.V[r] = chip8.V[r]
       IN /\ \A n \in 1..3 : AluStep(n) =>
                /\ others
                /\ IF config.current_extension = "CHIP8"
                     THEN /\ chip8'.V[15] = 0
                          /\ X # 15 => IsLogic(n, chip8'.V[X], x, y)
                     ELSE /\ IsLogic(n, chip8'.V[X], x, y)
                          /\ X # 15 => chip8'.V[15] = chip8.V[15]
          /\ AluStep(0) => chip8'.V = [chip8.V EXCEPT ![X] = y]
      ]_vars

\* 8121 on SUPERCHIP with V1 = 1, V2 = 128, VF = 7: V1 = 129 and VF still 7
C14_Witness ==
    /\ chip8.inst.opcode = 33057
    /\ config.current_extension = "SUPERCHIP"
    /\ chip8.V[1] = 129
    /\ chip8.V[15] = 7
    /\ rom = AluRom(1, 2, 1, 128)

----------------------------------------------------------------------------
(* The draw instruction *)

\* the step executes a DXYN whose sprite rows lie inside ram[]
DrawStep ==
    /\ ExecStep
    /\ Family(chip8'.inst.opcode) = 13
    /\ chip8.I + chip8'.inst.N <= RamSize

\* the start cell of the DXYN the step executes
StartX == chip8.V[chip8'.inst.X] % window_width
StartY == chip8.V[chip8'.inst.Y] % window_height

\* column c of row r of the sprite is inside the grid
Drawn(r, c) == StartX + c < window_width /\ StartY + r < window_height

\* bit c, most significant first, of row r of the sprite, before the step
SpriteBit(r, c) == Bit(chip8.ram[chip8.I + r], 7 - c) = 1

\* the index of the cell of row r, column c of the sprite
Cell(r, c) == (StartY + r) * window_width + StartX + c

(* C15: after DXYN VF is 1 when some sprite bit that is 1 and is drawn (not *)
(* clipped) falls on a cell that was true before the instruction, and 0     *)
(* otherwise, whatever VF held; the start coordinates are the values VX    *)
(* and VY had before VF is cleared, also with X = F or Y = F.              *)
C15_CollisionFlag ==
    [][DrawStep =>
          LET hit == \E r \in 0..(chip8'.inst.N - 1), c \in 0..7 :
                        /\ Drawn(r, c)
                        /\ SpriteBit(r, c)
                        /\ chip8.display[Cell(r, c)]
          IN chip8'.V[15] = IF hit THEN 1 ELSE 0
      ]_vars

\* DF25 with VF = 60 over the glyph at (0, 0): the sprite starts at column
\* 60, touches no lit cell and VF is 0
C15_Witness ==
    /\ chip8.inst.opcode = 57125
    /\ chip8.PC = 522
    /\ chip8.V[15] = 0
    /\ chip8.display[0]
    /\ chip8.display[60]
    /\ rom = SpriteRom(TRUE, 15, 2, 60, 0, 5)

(* C16: DXYN XORs bit c (most significant first) of sprite row r, the byte *)
(* ram[I + r], into the cell (x0 + c, y0 + r), for r < N and c < 8, when   *)
(* x0 + c < 64 and y0 + r < 32, where (x0, y0) = (VX mod 64, VY mod 32);   *)
(* every other cell keeps its value, no store goes outside the grid, and   *)
(* nothing of the machine changes but the display, VF, the draw flag and   *)
(* PC (and the record of the current instruction).                         *)
C16_DrawClips ==
    [][DrawStep =>
          /\ \A p \in 0..(DisplaySize-1) :
                LET r == (p \div window_width) - StartY
                    c == (p % window_width) - StartX
                    inside == /\ 0 <= r /\ r < chip8'.inst.N
                              /\ 0 <= c /\ c < 8
                IN chip8'.display[p] =
                      IF inside /\ SpriteBit(r, c)
                        THEN ~chip8.display[p]
                        ELSE chip8.display[p]
          /\ pc' # "undefined"
          /\ chip8' = [chip8 EXCEPT !.display = chip8'.display,
                                    !.V[15] = chip8'.V[15],
                                    !.draw = chip8'.draw,
                                    !.PC = chip8'.PC,
                                    !.inst = chip8'.inst]
          /\ any_key_pressed' = any_key_pressed
          /\ key' = key
      ]_vars

\* the first D12F at (63, 31): of the 15 rows of 8 bits only bit 7 of row 0
\* is inside the grid, and it has lit the last cell
C16_Witness ==
    /\ chip8.inst.opcode = 53551
    /\ chip8.PC = 522
    /\ chip8.V[1] = 255
    /\ chip8.V[2] = 255
    /\ chip8.display[DisplaySize - 1]
    /\ \A p \in 0..(DisplaySize - 2) : ~chip8.display[p]

\* the opcode at the address PC of c (PC + 1 inside ram[])
OpcodeAtPC(c) == c.ram[c.PC] * 256 + c.ram[c.PC + 1]

(* C17: drawing is an XOR involution.  When a DXYN with X and Y not F is   *)
(* followed at once by the same DXYN, the second one leaves the display as *)
(* it was before the first, and sets VF to 1 exactly when the first turned *)
(* on at least one cell.  The second draw is emulate_instruction applied   *)
(* to the machine the first one left.                                      *)
C17_DrawTwiceRestores ==
    [][(/\ DrawStep
        /\ chip8'.inst.X # 15 /\ chip8'.inst.Y # 15
        /\ pc' # "undefined"
        /\ chip8'.PC + 1 < RamSize
        /\ OpcodeAtPC(chip8') = chip8'.inst.opcode) =>
          LET second == emulate_instruction(chip8', config, any_key_pressed',
                                            key', Oracle0).c
              lit == \E p \in 0..(DisplaySize-1) :
                        ~chip8.display[p] /\ chip8'.display[p]
          IN /\ second.display = chip8.display
             /\ second.V[15] = IF lit THEN 1 ELSE 0
      ]_vars

\* the second D125 at (0, 0) on a display that was blank before the first:
\* the display is blank again and VF is 1
C17_Witness ==
    /\ chip8.inst.opcode = 53541
    /\ chip8.PC = 524
    /\ chip8.V[1] = 0
    /\ chip8.V[2] = 0
    /\ chip8.V[15] = 1
    /\ chip8.display = ZeroedChip8.display
    /\ rom = SpriteRom(FALSE, 1, 2, 0, 0, 5)

----------------------------------------------------------------------------
(* The draw flag *)

(* C18: a step that changes a display cell leaves the draw flag set; the   *)
(* flag stays set until the end of the frame, where the picture is         *)
(* presented and the flag cleared; so when a frame's batch of instructions *)
(* starts the flag is clear and the picture presented last is the display. *)
C18_DrawFlagTracksDisplay ==
    [][/\ chip8'.display # chip8.display => chip8'.draw
       /\ (chip8.draw /\ pc # "frame_end") => chip8'.draw
       /\ (pc' = "exec" /\ i' = 0) => (~chip8'.draw /\ screen' = chip8'.display)
      ]_vars

----------------------------------------------------------------------------
(* The register store and load *)

\* the step executes an FX55, resp. an FX65
StoreStep == ExecStep /\ Family(chip8'.inst.opcode) = 15 /\ chip8'.inst.NN = 85
LoadStep == ExecStep /\ Family(chip8'.inst.opcode) = 15 /\ chip8'.inst.NN = 101

\* the step executes an FX55 that the FX65 with the same X follows at once,
\* and the span bytes from I on are inside ram[]
StoreThenLoad(span) ==
    /\ StoreStep
    /\ chip8.I + span <= RamSize
    /\ chip8'.PC + 1 < RamSize
    /\ OpcodeAtPC(chip8') = chip8'.inst.opcode + 16

\* V0..VX of c are what they were before the step
RoundTrip(c) == \A r \in 0..chip8'.inst.X : c.V[r] = chip8.V[r]

\* the machine after the FX65 at the PC of c
AfterLoad(c) ==
    emulate_instruction(c, config, any_key_pressed', key', Oracle0).c

(* C19, as claimed: in every quirks mode an FX55 followed at once by the   *)
(* FX65 with the same X, all addresses inside ram[], leaves V0..VX as they *)
(* were before the FX55.                                                   *)
C19_StoreLoadRoundTrip ==
    [][StoreThenLoad(2 * (chip8'.inst.X + 1)) => RoundTrip(AfterLoad(chip8'))]_vars

(* C19, amended: the FX65 leaves V0..VX as they were before the FX55 when  *)
(* it runs with I equal to the I of the FX55: at once in SUPERCHIP and     *)
(* XOCHIP, and on CHIP8, where the FX55 has advanced I by X + 1, after I   *)
(* has been set back.                                                      *)
C19_RoundTripFromSameI ==
    [][StoreThenLoad(chip8'.inst.X + 1) =>
          /\ config.current_extension # "CHIP8" => chip8'.I = chip8.I
          /\ RoundTrip(AfterLoad([chip8' EXCEPT !.I = chip8.I]))
      ]_vars

\* FF55 then FF65 at 0x300 on SUPERCHIP: V0..VF hold the values stored
C19_Witness ==
    /\ chip8.inst.opcode = 65381
    /\ chip8.PC = 550
    /\ config.current_extension = "SUPERCHIP"
    /\ chip8.I = 768
    /\ \A r \in 0..(NumRegs-1) : chip8.V[r] = 16 * r + 5 /\ chip8.ram[768 + r] = 16 * r + 5

(* C20: FX55 copies V0..VX to ram[I0 .. I0 + X] and FX65 copies            *)
(* ram[I0 .. I0 + X] to V0..VX, I0 being I before the instruction: X + 1    *)
(* bytes, no other byte of ram and no other register changes; afterwards   *)
(* I = I0 + X + 1 on CHIP8 and I = I0 in the other modes.  FX55 changes no *)
(* register and FX65 no byte of ram.  (Addresses inside ram[].)            *)
C20_StoreAndLoad ==
    [][LET X == chip8'.inst.X
           I0 == chip8.I
           inRange == I0 + X < RamSize
           after == IF config.current_extension = "CHIP8" THEN I0 + X + 1 ELSE I0
       IN /\ (StoreStep /\ inRange) =>
                /\ chip8'.ram = [a \in 0..(RamSize-1) |->
                                   IF I0 <= a /\ a <= I0 + X
                                     THEN chip8.V[a - I0]
                                     ELSE chip8.ram[a]]
                /\ chip8'.V = chip8.V
                /\ chip8'.I = after
                /\ pc' # "undefined"
          /\ (LoadStep /\ inRange) =>
                /\ chip8'.V = [r \in 0..(NumRegs-1) |->
                                 IF r <= X THEN chip8.ram[I0 + r] ELSE chip8.V[r]]
                /\ chip8'.ram = chip8.ram
                /\ chip8'.I = after
      ]_vars

\* F765 at 0x202 on CHIP8: V0..V7 hold the eight bytes of the program from
\* 0x202 on, V8 keeps its value and I has advanced by 8
C20_Witness ==
    /\ chip8.inst.opcode = 63333
    /\ chip8.PC = 558
    /\ config.current_extension = "CHIP8"
    /\ chip8.I = 522
    /\ chip8.V[0] = 97 /\ chip8.V[1] = 21
    /\ chip8.V[7] = 69
    /\ chip8.V[8] = 133

----------------------------------------------------------------------------
(* The decimal digits *)

(* C21: FX33 stores the decimal digits of VX: afterwards ram[I] = VX div   *)
(* 100, ram[I+1] = (VX div 10) mod 10, ram[I+2] = VX mod 10, each in 0..9   *)
(* and 100 ram[I] + 10 ram[I+1] + ram[I+2] = VX; I, the registers and      *)
(* every other byte of ram are unchanged.  (I + 2 inside ram[].)           *)
C21_DecimalDigits ==
    [][(/\ ExecStep
        /\ Family(chip8'.inst.opcode) = 15 /\ chip8'.inst.NN = 51
        /\ chip8.I + 2 < RamSize) =>
          LET v == chip8.V[chip8'.inst.X]
              a == chip8.I
          IN /\ chip8'.ram[a] = v \div 100
             /\ chip8'.ram[a + 1] = (v \div 10) % 10
             /\ chip8'.ram[a + 2] = v % 10
             /\ \A d \in 0..2 : chip8'.ram[a + d] \in 0..9
             /\ 100 * chip8'.ram[a] + 10 * chip8'.ram[a + 1] + chip8'.ram[a + 2] = v
             /\ chip8'.ram = [chip8.ram EXCEPT ![a] = chip8'.ram[a],
                                               ![a + 1] = chip8'.ram[a + 1],
                                               ![a + 2] = chip8'.ram[a + 2]]
             /\ chip8'.I = chip8.I
             /\ chip8'.V = chip8.V
             /\ pc' # "undefined"
      ]_vars

\* FF33 on VF = 234 with I = 0x300: the digits 2, 3, 4
C21_Witness ==
    /\ chip8.inst.opcode = 65331
    /\ chip8.V[15] = 234
    /\ chip8.I = 768
    /\ chip8.ram[768] = 2 /\ chip8.ram[769] = 3 /\ chip8.ram[770] = 4

----------------------------------------------------------------------------
(* The opcodes without a meaning *)

\* op is an 8XYN, EXNN or FXNN whose sub-code is not a defined one
IsUnknown(op) ==
    \/ Family(op) = 8 /\ op % 16 \in {8, 9, 10, 11, 12, 13, 15}
    \/ Family(op) = 14 /\ op % 256 \notin {158, 161}
    \/ Family(op) = 15 /\ op % 256 \notin {7, 10, 21, 24, 30, 41, 51, 85, 101}

(* C22: an 8XYN, EXNN or FXNN with an undefined sub-code is a no-op: the   *)
(* step adds 2 to PC, rewrites the record of the current instruction and   *)
(* leaves registers, I, ram, stack, timers, display, draw flag, keypad and *)
(* run state, and the key wait, as they were.                              *)
C22_UnknownIsNoOp ==
    [][(ExecStep /\ IsUnknown(chip8'.inst.opcode)) =>
          /\ chip8' = [chip8 EXCEPT !.PC = (chip8.PC + 2) % Word,
                                    !.inst = chip8'.inst]
          /\ any_key_pressed' = any_key_pressed
          /\ key' = key
          /\ pc' # "undefined"
      ]_vars

\* E700 (UnknownOp(7)) has been executed at 0x216, in the second frame: PC
\* is 0x218, V1, VF and I are as the first instructions left them and the
\* delay timer has been lowered once
C22_Witness ==
    /\ chip8.inst.opcode = 59136
    /\ chip8.PC = 536
    /\ chip8.V[1] = 9
    /\ chip8.V[15] = 3
    /\ chip8.I = 768
    /\ chip8.delay_timer = 8
    /\ chip8.V[7] = 0

(* C23: a 5XYN or 9XYN with N other than 0 never skips: after the step PC  *)
(* is the address of the opcode plus 2, whatever VX and VY hold.           *)
C23_OnlyExactCompareSkips ==
    [][(ExecStep /\ Family(chip8'.inst.opcode) \in {5, 9} /\ chip8'.inst.N # 0) =>
          chip8'.PC = (chip8.PC + 2) % Word
      ]_vars

----------------------------------------------------------------------------
(* The construction *)

\* c is the machine the spec describes after a construction from romv
Constructed(c, romv) ==
    /\ \A a \in 0..(RamSize-1) :
          c.ram[a] = IF a < Len(font) THEN font[a + 1]
                     ELSE IF entry_point <= a /\ a < entry_point + Len(romv)
                       THEN romv[a - entry_point + 1]
                     ELSE 0
    /\ c.PC = entry_point
    /\ \A r \in 0..(NumRegs-1) : c.V[r] = 0
    /\ c.I = 0
    /\ c.delay_timer = 0 /\ c.sound_timer = 0
    /\ ~c.stack_ptr_null /\ c.stack_ptr = 0
    /\ \A p \in 0..(DisplaySize-1) : ~c.display[p]
    /\ \A k \in 0..(NumKeys-1) : ~c.keypad[k]
    /\ c.state = "RUNNING"

(* C24: the construction at the start accepts every readable ROM of at     *)
(* most 3584 bytes (a start that succeeds is possible) and rejects every   *)
(* longer one; after a success ram holds the font at 0..79, the ROM at     *)
(* 0x200 and 0 elsewhere, PC = 0x200, registers, I and timers are 0, the   *)
(* stack is empty, the display blank, no key is pressed and the state is   *)
(* RUNNING.                                                                *)
C24_Construction ==
    [][pc = "start" =>
          /\ Len(rom) <= 3584 => ENABLED (Construct /\ pc' = "poll")
          /\ Len(rom) > 3584 => pc' = "exit"
          /\ pc' = "poll" => Constructed(chip8', rom)
      ]_vars

\* the step is a reset that succeeds: the record of the current instruction
\* is blank again and the machine runs
SuccessfulReset ==
    /\ pc = "poll"
    /\ chip8.inst # NoInst
    /\ chip8'.inst = NoInst
    /\ chip8'.state = "RUNNING"

(* C25: a reset that succeeds leaves exactly the machine the construction  *)
(* at the start produces from the same ROM, in whatever state it is done:  *)
(* nothing of the machine before it survives, the key wait included.       *)
C25_ResetReplacesAll ==
    [][SuccessfulReset =>
          /\ chip8' = init_chip8(rom, TRUE).chip8
          /\ Constructed(chip8', rom)
          /\ key' = NoKey
          /\ any_key_pressed' = FALSE
      ]_vars

(* C26: a construction that fails creates no machine: at the start the     *)
(* program exits, and after a reset that fails the machine it leaves       *)
(* (stack pointer null) is never RUNNING and executes no instruction.      *)
C26_FailedConstruction ==
    [][/\ (pc = "start" /\ chip8'.stack_ptr_null) => pc' = "exit"
       /\ (pc # "start" /\ chip8'.stack_ptr_null) =>
             (chip8'.state # "RUNNING" /\ pc' # "exec")
      ]_vars

(* C27: between frames (the program is about to read the host's events)    *)
(* the audio device plays exactly when the sound timer is above zero.      *)
C27_SoundFollowsTimer ==
    pc = "poll" => (playing <=> chip8.sound_timer > 0)

(* C28: for every opcode and every machine state, executing one            *)
(* instruction has a defined effect that leaves the 16 keypad entries and  *)
(* the run state as they were (a store outside an array leaves nothing of  *)
(* the object guaranteed).                                                 *)
C28_HostStateReadOnly ==
    [][pc = "exec" =>
          /\ pc' # "undefined"
          /\ chip8'.keypad = chip8.keypad
          /\ chip8'.state = chip8.state
      ]_vars

(* C29: 6XNN sets VX to NN and 7XNN sets VX to (VX + NN) mod 256; every    *)
(* other register, VF included when X is not F, keeps its value, also when *)
(* the sum exceeds 255.  6A12 then 7A05 leaves VA = 0x17.                  *)
C29_ImmediateNoFlag ==
    [][LET X == chip8'.inst.X
           NN == chip8'.inst.NN
       IN /\ (ExecStep /\ Family(chip8'.inst.opcode) = 6) =>
                chip8'.V = [chip8.V EXCEPT ![X] = NN]
          /\ (ExecStep /\ Family(chip8'.inst.opcode) = 7) =>
                chip8'.V = [chip8.V EXCEPT ![X] = (chip8.V[X] + NN) % Byte]
          /\ (ExecStep /\ chip8'.inst.opcode = 31237 /\ chip8.V[10] = 18) =>
                chip8'.V[10] = 23
      ]_vars

\* 7AFF on VA = 200: the sum is 455, VA is 199 and VF still the 7 set at
\* the start
C29_Witness ==
    /\ chip8.inst.opcode = 31487
    /\ chip8.V[10] = 199
    /\ chip8.V[15] = 7
    /\ rom = ImmRom(10, 200, 255)

\* an FX0A at address a is about to run with no key saved and k the first
\* key down
PressSeen(k, a) ==
    /\ pc = "exec"
    /\ chip8.PC = a
    /\ IsFX0A(OpcodeAtPC(chip8))
    /\ key = NoKey
    /\ ~NoKeyDown(chip8)
    /\ FirstKeyDown(chip8) = k

\* the key wait has saved k and waits for its release at the FX0A at a
WaitingForRelease(k, a) ==
    /\ key = k
    /\ any_key_pressed
    /\ chip8.PC = a
    /\ IsFX0A(chip8.inst.opcode)

\* an FX0A at address a is about to run with k saved and k released
ReleaseSeen(k, a) ==
    /\ pc = "exec"
    /\ chip8.PC = a
    /\ IsFX0A(OpcodeAtPC(chip8))
    /\ key = k
    /\ any_key_pressed
    /\ ~chip8.keypad[k]

\* the FX0A at a has completed with k: VX written, PC past it, wait idle
KeyWaitDone(k, a) ==
    /\ IsFX0A(chip8.inst.opcode)
    /\ chip8.PC = a + 2
    /\ chip8.V[chip8.inst.X] = k
    /\ key = NoKey
    /\ ~any_key_pressed

(* C30: while the machine keeps running and the host only uses the keypad, *)
(* an FX0A step that observes a key pressed leads to the wait for that     *)
(* key's release, and an FX0A step that observes the saved key released    *)
(* leads to the completion: VX holds the key, PC is past the FX0A and the  *)
(* key wait is idle again.                                                 *)
C30_KeyWaitCompletes ==
    \A k \in LiveKeys, a \in {entry_point, entry_point + 2} :
        /\ PressSeen(k, a) ~> (WaitingForRelease(k, a) \/ KeyWaitDone(k, a))
        /\ ReleaseSeen(k, a) ~> KeyWaitDone(k, a)

\* the second wait of KeyRom, F60A at 0x202, has completed with key 1 after
\* the first one completed with key 0
C30_Witness ==
    /\ KeyWaitDone(1, entry_point + 2)
    /\ chip8.V[5] = 0
    /\ pc = "exec"
    /\ NoKeyDown(chip8)

(* C31: in the family 0 only the opcodes 00E0 and 00EE have an effect:     *)
(* every other 0NNN adds 2 to PC and changes nothing else of the machine   *)
(* (display, draw flag and stack included) but the record of the current   *)
(* instruction.                                                            *)
C31_OnlyExactZeroOps ==
    [][(ExecStep /\ Family(chip8'.inst.opcode) = 0
                 /\ chip8'.inst.opcode \notin {224, 238}) =>
          /\ chip8' = [chip8 EXCEPT !.PC = (chip8.PC + 2) % Word,
                                    !.inst = chip8'.inst]
          /\ pc' # "undefined"
      ]_vars

\* a quit event (window close or Escape) has been processed: the state is
\* QUIT and the machine is a constructed one
HasQuit(c) == c.state = "QUIT" /\ c.rom_name # "NULL"

(* C32: quit is absorbing: once a quit event has been processed the run    *)
(* state stays QUIT whatever events follow and no instruction is executed  *)
(* any more.                                                               *)
C32_QuitAbsorbing ==
    [][HasQuit(chip8) =>
          /\ chip8'.state = "QUIT"
          /\ pc' # "exec"
          /\ pc # "exec"
      ]_vars

\* the Space key
SpaceKey == [type |-> "SDL_KEYDOWN", sym |-> "SDLK_SPACE", k |-> 0]

\* machine d is machine c but for the run state and the keypad
Frozen(c, d) == d = [c EXCEPT !.state = d.state, !.keypad = d.keypad]

(* C33: while the run state is PAUSED no instruction executes and no frame *)
(* ends: a step of a paused machine that is not a reset leaves PC, V, I,   *)
(* stack, memory, display and both timers (and the key wait and the        *)
(* screen) as they were; and a Space right after the Space that paused     *)
(* gives back exactly the machine that was paused.                         *)
C33_PausedIsFrozen ==
    [][/\ chip8.state = "PAUSED" =>
             /\ pc = "poll"
             /\ \/ /\ pc' = "poll"
                   /\ Frozen(chip8, chip8')
                   /\ key' = key
                   /\ any_key_pressed' = any_key_pressed
                   /\ screen' = screen
                   /\ playing' = playing
                \/ ResetStep
       /\ (chip8.state = "RUNNING" /\ chip8'.state = "PAUSED") =>
             handle_event(chip8', config, rom, SpaceKey, TRUE) = chip8
      ]_vars

\* TimerRom paused after its first frame, with the delay timer at 2, and a
\* key pressed during the pause
C33_Witness ==
    /\ chip8.state = "PAUSED"
    /\ chip8.delay_timer = 2
    /\ chip8.keypad[1]
    /\ frames = 1
    /\ rom = TimerRom

\* the step is an EX9E or an EXA1
SkipKeyStep ==
    /\ ExecStep
    /\ Family(chip8'.inst.opcode) = 14
    /\ chip8'.inst.NN \in {158, 161}

(* C34: EX9E and EXA1 look up the keypad with an index in 0..15 whatever   *)
(* VX holds, and skip according to that keypad entry alone: EX9E when it   *)
(* is down, EXA1 when it is up.                                            *)
C34_KeyLookupInBounds ==
    [][SkipKeyStep =>
          LET index == chip8.V[chip8'.inst.X]
              skipped == chip8'.PC = (chip8.PC + 4) % Word
          IN /\ index < NumKeys
             /\ skipped <=> (chip8.keypad[index] <=> chip8'.inst.NN = 158)
      ]_vars

====
